---- MODULE Spec2Model ----
(***************************************************************************)
(* Model of the auth-operation example application:                        *)
(*   - the Roles API route POST /api/roles/canAccessPage,                  *)
(*   - the UserChangePasswordController response mapping,                  *)
(*   - the ForgotPassword view's submit effect.                            *)
(***************************************************************************)
EXTENDS Integers, Sequences, FiniteSets, TLC

VARIABLES
    requests,           \* canAccessPage: one record per HTTP request (handler locals + response)
    calls,              \* UserChangePasswordController.handleResponse: one record per call
    mounted,            \* ForgotPassword: the component is mounted
    formData,           \* ForgotPassword: useState formData (validation state per input)
    formErrors,         \* ForgotPassword: useState formErrors
    submittingForm,     \* ForgotPassword: useState submittingForm
    formAlert,          \* ForgotPassword: useState formAlert
    runs,               \* ForgotPassword: the effect runs that called fetchResults
    controllerActions,  \* ForgotPassword: number of ForgotPasswordController.handleAction calls
    event               \* ForgotPassword: the last step taken and the state it started from

rolesVars == <<requests>>
ctlVars == <<calls>>
viewVars == <<mounted, formData, formErrors, submittingForm, formAlert, runs, controllerActions, event>>
vars == <<requests, calls, mounted, formData, formErrors, submittingForm, formAlert, runs,
          controllerActions, event>>

(***************************************************************************)
(* Bounds                                                                  *)
(***************************************************************************)
MaxRequests == 2
MaxCalls == 2
MaxRuns == 2
NumInputs == 2

Requests == 1 .. MaxRequests

(***************************************************************************)
(* Roles API: POST /api/roles/canAccessPage                                *)
(***************************************************************************)
\* config.fusionAuth.applicationId and the id of some other application.
applicationId == "app"
otherApplicationId == "other"

Roles == {"admin", "user"}

\* req.user.registrations: an array of registrations with unique application
\* ids.  A registration of another application precedes the configured one,
\* so that application[0] differs from registrations[1].
OwnRegistrations ==
    {<<>>} \cup {<<[applicationId |-> applicationId, roles |-> rs]>> : rs \in {{}, {"user"}, {"admin", "user"}}}

OtherRegistrations ==
    {<<>>, <<[applicationId |-> otherApplicationId, roles |-> Roles]>>}

Registrations == {o \o w : o \in OtherRegistrations, w \in OwnRegistrations}

\* The documents of the roles collection, keyed by route.  A path without a
\* document makes findOne resolve with null.
Null == [null |-> TRUE]

RouteTable ==
    [p \in {"/todos", "/legacy", "/missing"} |->
        CASE p = "/todos"  -> [route |-> p, read |-> <<"admin", "user">>]
          [] p = "/legacy" -> [route |-> p]
          [] OTHER         -> Null]

Paths == DOMAIN RouteTable

\* rolesModel.findOne({ route: req.body.path }) when the query succeeds.
findOne(path) == RouteTable[path]

\* The registrations taken without the filter on the application id.
applicationUnfiltered(registrations) == registrations

\* registrations.filter(registration => registration.applicationId === config.fusionAuth.applicationId)
application(registrations) ==
    SelectSeq(registrations, LAMBDA registration : registration.applicationId = applicationId)

\* The .then callback: "throw" when route.read cannot be iterated (route is
\* null or has no read list), 200 when the loop finds an allowed read role
\* among userRoles, 401 when the loop ends without one.
thenCallback(route, userRoles) ==
    IF route = Null \/ "read" \notin DOMAIN route
    THEN [threw |-> TRUE, status |-> 0]
    ELSE IF \E i \in 1 .. Len(route.read) : route.read[i] \in userRoles
         THEN [threw |-> FALSE, status |-> 200]
         ELSE [threw |-> FALSE, status |-> 401]

\* The .catch callback.
catchCallback == 403

\* What the promise chain sends for a lookup outcome.
chainStatus(outcome, route, userRoles) ==
    IF outcome = "rejected"
    THEN catchCallback
    ELSE IF thenCallback(route, userRoles).threw
         THEN catchCallback
         ELSE thenCallback(route, userRoles).status

\* The status the framework's error handler answers with when the handler
\* itself throws.
frameworkError == 500

NoRequest ==
    [pc |-> "idle", registrations |-> <<>>, path |-> "/missing", userRoles |-> {},
     outcome |-> "none", responses |-> <<>>, overlapped |-> FALSE]

\* The requests whose lookup is pending.
Pending == {q \in Requests : requests[q].pc = "lookup"}

\* userRoles kept in one module-level variable: the callbacks read what the
\* latest handler stored.
sharedUserRoles(r) ==
    LET started == {q \in Requests : requests[q].pc # "idle"} IN
    requests[CHOOSE q \in started : \A p \in started : q >= p].userRoles

\* The userRoles local that the callbacks of request r close over.
closureUserRoles(r) == requests[r].userRoles

\* The synchronous part of the handler, up to the findOne call.  Reading
\* application[0].roles throws when no registration matches.
Handle(r) ==
    /\ requests[r].pc = "idle"
    /\ \E regs \in Registrations, path \in Paths :
        LET app == application(regs) IN
        IF Len(app) = 0
        THEN requests' = [requests EXCEPT ![r] =
                [@ EXCEPT !.pc = "done", !.registrations = regs, !.path = path,
                          !.outcome = "threw", !.responses = <<frameworkError>>]]
        ELSE requests' = [requests EXCEPT ![r] =
                [@ EXCEPT !.pc = "lookup", !.registrations = regs, !.path = path,
                          !.userRoles = app[1].roles, !.overlapped = (Pending # {})]]
    /\ UNCHANGED <<ctlVars, viewVars>>

\* findOne settles for request r: the then or the catch callback runs.
LookupSettles(r) ==
    /\ requests[r].pc = "lookup"
    /\ \E outcome \in {"resolved", "rejected"} :
        requests' = [requests EXCEPT ![r] =
            [@ EXCEPT !.pc = "done", !.outcome = outcome,
                      !.responses = Append(@, chainStatus(outcome, findOne(requests[r].path), closureUserRoles(r)))]]
    /\ UNCHANGED <<ctlVars, viewVars>>

InitRoles == requests = [r \in Requests |-> NoRequest]

NextRoles == \E r \in Requests : Handle(r) \/ LookupSettles(r)

(***************************************************************************)
(* UserChangePasswordController.handleResponse                             *)
(***************************************************************************)
\* links.home
links == [home |-> "/home"]

\* The response statuses and API messages the API service answers with.
Statuses == {200, 201, 400, 401, 404, 500}
Messages == {"m1", "m2"}

\* Redirect data for the redirectable statuses.
redirectData == [s \in {200} |-> [redirect |-> links.home, alert |-> TRUE]]

\* Alert types by status, 500 being the default key.
alertData == [s \in {500} |-> "danger"]

\* ResponseHandler.status: fulfils with the redirect entry of a redirectable
\* status, rejects with an alert (type by status, defaulting to the 500 key;
\* content the API message) for every other status.
ResponseHandlerStatus(response, redirects, alerts) ==
    IF response.status \in DOMAIN redirects
    THEN [fulfilled |-> TRUE, value |-> redirects[response.status]]
    ELSE [fulfilled |-> FALSE,
          value |-> [type |-> IF response.status \in DOMAIN alerts
                              THEN alerts[response.status]
                              ELSE alerts[500],
                     content |-> response.message]]

\* The promise executor of handleResponse with a catch block that resolves
\* with the error instead of rejecting.
executorSwallowsError(inner) ==
    [kind |-> "resolve", value |-> inner.value]

\* The promise executor of handleResponse: resolve with the awaited value,
\* reject with the caught error.
executor(inner) ==
    IF inner.fulfilled
    THEN [kind |-> "resolve", value |-> inner.value]
    ELSE [kind |-> "reject", value |-> inner.value]

\* handleResponse is called: the promise is created and the executor awaits
\* ResponseHandler.status.
HandleResponseCall ==
    /\ Len(calls) < MaxCalls
    /\ \A i \in DOMAIN calls : calls[i].pc = "settled"
    /\ \E st \in Statuses, m \in Messages :
        calls' = Append(calls, [pc |-> "awaiting",
                                response |-> [status |-> st, message |-> m],
                                settlements |-> <<>>])
    /\ UNCHANGED <<rolesVars, viewVars>>

\* ResponseHandler.status settles and the executor settles the promise.
HandleResponseSettle ==
    /\ \E i \in DOMAIN calls :
        /\ calls[i].pc = "awaiting"
        /\ calls' = [calls EXCEPT ![i] =
                [@ EXCEPT !.pc = "settled",
                          !.settlements = Append(@,
                              executor(ResponseHandlerStatus(calls[i].response, redirectData, alertData)))]]
    /\ UNCHANGED <<rolesVars, viewVars>>

InitCtl == calls = <<>>

NextCtl == HandleResponseCall \/ HandleResponseSettle

(***************************************************************************)
(* ForgotPassword view                                                     *)
(***************************************************************************)
\* The inputs of ForgotPasswordForm.
Inputs == 1 .. NumInputs

\* useState({ type: null })
NoAlert == [type |-> "null", content |-> ""]

\* What fetchResults rejects with: an error carrying data.message, or an
\* error with no data field.
FetchErrors == {[data |-> [message |-> "m1"]], [message |-> "Network Error"]}
NoError == [none |-> TRUE]

\* The statuses fetchResults resolves with.
FetchStatuses == {200, 400}

\* What ForgotPasswordController.handleAction returns: false after a
\* redirect, or the alert to show.
ActionResults == {<<>>, <<[type |-> "success", content |-> "sent"]>>}

\* ForgotPasswordController.handleResponse, of the same shape as the other
\* controllers: resolve for a redirectable status, reject with a typed alert.
ForgotPasswordHandleResponse(response) ==
    executor(ResponseHandlerStatus(response, redirectData, alertData))

\* The guard of submitForm without the formErrors test.
shouldSubmitIgnoringErrors(didCancel, submitting, errors) ==
    ~didCancel /\ submitting

\* The guard of submitForm: !didCancel && submittingForm && !formErrors.
shouldSubmit(didCancel, submitting, errors) ==
    ~didCancel /\ submitting /\ ~errors

\* The synchronous part of one effect run whose closure holds (submitting,
\* errors): it calls fetchResults, or resets submittingForm.
effectRun(submitting, errors) ==
    IF shouldSubmit(FALSE, submitting, errors)
    THEN [fetch |-> TRUE, submittingForm |-> submitting]
    ELSE [fetch |-> FALSE, submittingForm |-> FALSE]

\* Committing (submitting, errors): the effect reruns when a dependency
\* changed, and again when the run itself changed submittingForm.
render(submitting, errors) ==
    IF <<submitting, errors>> = <<submittingForm, formErrors>>
    THEN [ran |-> FALSE, fetch |-> FALSE, submittingForm |-> submitting]
    ELSE LET first == effectRun(submitting, errors) IN
         IF first.submittingForm = submitting
         THEN [ran |-> TRUE, fetch |-> first.fetch, submittingForm |-> submitting]
         ELSE LET second == effectRun(first.submittingForm, errors) IN
              [ran |-> TRUE, fetch |-> second.fetch, submittingForm |-> second.submittingForm]

\* The effect's cleanup: didCancel = true.
cleanup(rs) == [i \in DOMAIN rs |-> [rs[i] EXCEPT !.didCancel = TRUE]]

NewRun(submitting, errors) ==
    [stage |-> "fetching", didCancel |-> FALSE,
     closure |-> [submittingForm |-> submitting, formErrors |-> errors],
     status |-> 0, error |-> NoError]

\* The state after a batch of updates that leaves (submitting, errors), the
\* runs being rs before the render.
Commit(submitting, errors, rs) ==
    LET r == render(submitting, errors) IN
    /\ formErrors' = errors
    /\ submittingForm' = r.submittingForm
    /\ runs' = IF ~r.ran THEN rs
               ELSE IF r.fetch
                    THEN Append(cleanup(rs), NewRun(r.submittingForm, errors))
                    ELSE cleanup(rs)

Before == [formErrors |-> formErrors, submittingForm |-> submittingForm, runs |-> Len(runs)]

\* handleFormSubmit: the updates of one event handler are batched.
HandleFormSubmit ==
    /\ mounted
    /\ Len(runs) < MaxRuns
    /\ \E valid \in [Inputs -> BOOLEAN] :
        LET isError == \E input \in Inputs : ~valid[input] IN
        /\ formData' = [input \in Inputs |-> IF valid[input] THEN "valid" ELSE "error"]
        /\ formAlert' = NoAlert
        /\ Commit(TRUE, isError, runs)
        /\ event' = [kind |-> "submit", allValid |-> ~isError, before |-> Before]
    /\ UNCHANGED <<mounted, controllerActions, rolesVars, ctlVars>>

\* validate, called by an input on blur.
Validate ==
    /\ mounted
    /\ \E target \in Inputs, isError \in BOOLEAN :
        /\ formData' = [formData EXCEPT ![target] = IF isError THEN "error" ELSE "valid"]
        /\ Commit(submittingForm, formErrors \/ isError, runs)
        /\ event' = [kind |-> "blur", allValid |-> ~isError, before |-> Before]
    /\ UNCHANGED <<mounted, formAlert, controllerActions, rolesVars, ctlVars>>

\* The component unmounts: the cleanup of the last effect run.
Unmount ==
    /\ mounted
    /\ mounted' = FALSE
    /\ runs' = cleanup(runs)
    /\ event' = [kind |-> "unmount", allValid |-> TRUE, before |-> Before]
    /\ UNCHANGED <<formData, formErrors, submittingForm, formAlert, controllerActions,
                   rolesVars, ctlVars>>

\* The catch block of submitForm: the alert it sets (none when it sets
\* none) and whether it reaches setSubmittingForm(false).  Reading
\* error.data.message of an error without data throws.
catchBlock(error, didCancel) ==
    IF didCancel
    THEN [alert |-> <<>>, reset |-> FALSE]
    ELSE IF "type" \in DOMAIN error
         THEN [alert |-> <<[type |-> error.type, content |-> error.content]>>, reset |-> TRUE]
         ELSE IF "data" \in DOMAIN error
              THEN [alert |-> <<[type |-> "danger", content |-> error.data.message]>>, reset |-> TRUE]
              ELSE [alert |-> <<>>, reset |-> FALSE]

\* Run i fails with error: the catch block runs.
Catch(i, error) ==
    LET c == catchBlock(error, runs[i].didCancel)
        rs == [runs EXCEPT ![i] = [@ EXCEPT !.stage = "failed", !.error = error]]
    IN
    /\ formAlert' = IF c.alert = <<>> THEN formAlert ELSE c.alert[1]
    /\ IF c.reset
       THEN Commit(FALSE, formErrors, rs)
       ELSE /\ runs' = rs
            /\ UNCHANGED <<formErrors, submittingForm>>

\* await fetchResults(formData) fulfils: handleResponse is called.
FetchResolves ==
    /\ \E i \in DOMAIN runs, st \in FetchStatuses :
        /\ runs[i].stage = "fetching"
        /\ runs' = [runs EXCEPT ![i] = [@ EXCEPT !.stage = "handling", !.status = st]]
    /\ event' = [kind |-> "fetchResolves", allValid |-> TRUE, before |-> Before]
    /\ UNCHANGED <<mounted, formData, formErrors, submittingForm, formAlert, controllerActions,
                   rolesVars, ctlVars>>

\* await fetchResults(formData) rejects.
FetchRejects ==
    /\ \E i \in DOMAIN runs, error \in FetchErrors :
        /\ runs[i].stage = "fetching"
        /\ Catch(i, error)
    /\ event' = [kind |-> "fetchRejects", allValid |-> TRUE, before |-> Before]
    /\ UNCHANGED <<mounted, formData, controllerActions, rolesVars, ctlVars>>

\* await handleResponse(...) fulfils: handleResponseAction calls the
\* controller's handleAction and sets the alert it returns.
ControllerResolves ==
    /\ \E i \in DOMAIN runs, result \in ActionResults :
        /\ runs[i].stage = "handling"
        /\ ForgotPasswordHandleResponse([status |-> runs[i].status, message |-> "m2"]).kind = "resolve"
        /\ controllerActions' = controllerActions + 1
        /\ formAlert' = IF result # <<>> /\ mounted THEN result[1] ELSE formAlert
        /\ runs' = [runs EXCEPT ![i] = [@ EXCEPT !.stage = "done"]]
    /\ event' = [kind |-> "controllerResolves", allValid |-> TRUE, before |-> Before]
    /\ UNCHANGED <<mounted, formData, formErrors, submittingForm, rolesVars, ctlVars>>

\* await handleResponse(...) rejects with the controller's typed alert.
ControllerRejects ==
    /\ \E i \in DOMAIN runs :
        LET settled == ForgotPasswordHandleResponse([status |-> runs[i].status, message |-> "m2"]) IN
        /\ runs[i].stage = "handling"
        /\ settled.kind = "reject"
        /\ Catch(i, settled.value)
    /\ event' = [kind |-> "controllerRejects", allValid |-> TRUE, before |-> Before]
    /\ UNCHANGED <<mounted, formData, controllerActions, rolesVars, ctlVars>>

\* The mounted view after its first effect run, which leaves submittingForm false.
InitView ==
    /\ mounted = TRUE
    /\ formData = [input \in Inputs |-> "unset"]
    /\ formErrors = FALSE
    /\ submittingForm = FALSE
    /\ formAlert = NoAlert
    /\ runs = <<>>
    /\ controllerActions = 0
    /\ event = [kind |-> "mount", allValid |-> TRUE,
                before |-> [formErrors |-> FALSE, submittingForm |-> FALSE, runs |-> 0]]

NextView ==
    \/ HandleFormSubmit
    \/ Validate
    \/ Unmount
    \/ FetchResolves
    \/ FetchRejects
    \/ ControllerResolves
    \/ ControllerRejects

(***************************************************************************)
(* Specifications                                                          *)
(***************************************************************************)
Init == InitRoles /\ InitCtl /\ InitView

SpecRoles == Init /\ [][NextRoles]_vars
SpecCtl == Init /\ [][NextCtl]_vars
SpecView == Init /\ [][NextView]_vars

(***************************************************************************)
(* Properties of POST /api/roles/canAccessPage                             *)
(***************************************************************************)
Done(r) == requests[r].pc = "done"

\* The roles held in the registration for the configured application.
ownRoles(regs) ==
    UNION {regs[i].roles : i \in {j \in DOMAIN regs : regs[j].applicationId = applicationId}}

hasRegistration(regs) == \E i \in DOMAIN regs : regs[i].applicationId = applicationId

hasReadList(route) == route # Null /\ "read" \in DOMAIN route

readRoles(route) == IF hasReadList(route) THEN {route.read[i] : i \in DOMAIN route.read} ELSE {}

\* C1: every handled request has received exactly one response, with
\* status 200, 401 or 403, whatever its registrations, path and lookup
\* outcome.
C1_OneResponse200_401_403 ==
    \A r \in Requests :
        Done(r) => /\ Len(requests[r].responses) = 1
                   /\ requests[r].responses[1] \in {200, 401, 403}

C3_FailureIs403 ==
    \A r \in Requests :
        LET req == requests[r]
            route == RouteTable[req.path]
        IN
        (Done(r) /\ (\/ req.outcome = "rejected"
                     \/ ~hasReadList(route)
                     \/ ~hasRegistration(req.registrations)))
            => req.responses = <<403>>

\* What one request handled alone is answered.
sequentialStatus(regs, path, outcome) ==
    IF Len(application(regs)) = 0
    THEN frameworkError
    ELSE chainStatus(outcome, findOne(path), application(regs)[1].roles)

\* C5: whatever the overlap of the lookups, a request's response is the one
\* it gets when handled alone: it depends on its own registrations, its
\* path and the route table only.
C5_ResponseIndependent ==
    \A r \in Requests :
        Done(r) => requests[r].responses =
                     <<sequentialStatus(requests[r].registrations, requests[r].path,
                                        IF requests[r].outcome = "rejected" THEN "rejected" ELSE "resolved")>>

\* Two requests with different roles whose lookups overlapped, answered
\* differently.
C5_Witness ==
    \E r, q \in Requests :
        /\ Done(r) /\ Done(q)
        /\ q # r
        /\ requests[r].overlapped
        /\ requests[r].userRoles # requests[q].userRoles
        /\ requests[r].responses = <<200>>
        /\ requests[q].responses = <<401>>

(***************************************************************************)
(* Properties of UserChangePasswordController.handleResponse               *)
(***************************************************************************)
\* C4: handleResponse settles exactly once per response; it resolves, with
\* the redirect to links.home and its alert flag, for status 200 only, and
\* rejects with an alert of type danger for every other status.
C4_HandleResponse ==
    \A i \in DOMAIN calls :
        LET call == calls[i] IN
        /\ call.pc = "awaiting" => call.settlements = <<>>
        /\ call.pc = "settled" =>
            /\ Len(call.settlements) = 1
            /\ (call.settlements[1].kind = "resolve") <=> (call.response.status = 200)
            /\ call.settlements[1].kind \in {"resolve", "reject"}
            /\ call.response.status = 200 =>
                  call.settlements[1].value = [redirect |-> links.home, alert |-> TRUE]
            /\ call.response.status # 200 => call.settlements[1].value.type = "danger"

\* One call settled by a resolve for 200 and one settled by a reject for 404.
C4_Witness ==
    /\ \E i \in DOMAIN calls :
        /\ calls[i].pc = "settled" /\ calls[i].response.status = 200
        /\ calls[i].settlements[1].kind = "resolve"
    /\ \E i \in DOMAIN calls :
        /\ calls[i].pc = "settled" /\ calls[i].response.status = 404
        /\ calls[i].settlements[1].kind = "reject"

(***************************************************************************)
(* Properties of the ForgotPassword view                                   *)
(***************************************************************************)
Sent == Len(runs) > event.before.runs

\* C6: fetchResults is called only by a submit, in a state where
\* submittingForm is true and formErrors is false; a submit with a failing
\* input sends nothing; a submit whose inputs are all valid sends a request
\* although formErrors was true before it.
C6_ValidatedBeforeSubmit ==
    /\ \A i \in DOMAIN runs : runs[i].closure = [submittingForm |-> TRUE, formErrors |-> FALSE]
    /\ Sent => event.kind = "submit" /\ submittingForm /\ ~formErrors
    /\ (event.kind = "submit" /\ ~event.allValid) => ~Sent
    /\ (event.kind = "submit" /\ event.allValid /\ event.before.formErrors) =>
          /\ Len(runs) = event.before.runs + 1
          /\ runs[Len(runs)].stage = "fetching"
          /\ ~runs[Len(runs)].didCancel

\* A second submit, all inputs valid, sends a request after a validation
\* failure had set formErrors.
C6_Witness ==
    /\ event.kind = "submit" /\ event.allValid /\ event.before.formErrors
    /\ Len(runs) = 2
    /\ runs[2].stage = "fetching"

\* C7: a step of a cancelled run changes no view state and calls no
\* controller action.
C7_CancelledRunIsInert ==
    [][\A i \in DOMAIN runs :
          (runs[i].didCancel /\ runs'[i].stage # runs[i].stage) =>
              /\ formAlert' = formAlert
              /\ submittingForm' = submittingForm
              /\ controllerActions' = controllerActions]_vars

\* C8: when a run that is not cancelled fails, the alert of the error is
\* shown and submittingForm is reset, for every shape of error.
C8_FailureShowsAlertAndResets ==
    [][\A i \in DOMAIN runs :
          (runs[i].stage # "failed" /\ runs'[i].stage = "failed" /\ ~runs[i].didCancel) =>
              /\ submittingForm' = FALSE
              /\ IF "type" \in DOMAIN runs'[i].error
                 THEN formAlert' = [type |-> runs'[i].error.type, content |-> runs'[i].error.content]
                 ELSE /\ formAlert'.type = "danger"
                      /\ "data" \in DOMAIN runs'[i].error =>
                            formAlert'.content = runs'[i].error.data.message]_vars

\* C9: at most one forgot-password request is in flight.
C9_AtMostOneInFlight ==
    Cardinality({i \in DOMAIN runs : runs[i].stage = "fetching"}) <= 1

====
